---- MODULE Spec2Model ----
(***************************************************************************)
(* Model of the `time` crate of timeline-editor: the Gregorian Date, Year   *)
(* and Month types (src/time/src/date/gregorian.rs) and the calendar       *)
(* conversion contract (src/time/src/calendar.rs).                         *)
(*                                                                         *)
(* The crate is a library of pure functions over small values.  A state of *)
(* the model is one call of the library: the arguments it was given and    *)
(* the outcome it produced.  An outcome is a record tagged "ok" (a value), *)
(* "err" (a returned Err) or "panic" (the call unwound).                   *)
(***************************************************************************)
EXTENDS Integers, Sequences, FiniteSets, TLC

VARIABLES
    first,    \* the date an operation is applied to (`self`, or `first`)
    second,   \* the other date of a two-date operation (`second`)
    days,     \* the signed day count given to add_days
    parts,    \* the raw (year, month, day) arguments given to from_parts
    year,     \* the Year value the Year operations act on
    rhs,      \* the right-hand side of a Year subtraction / try_from input
    op,       \* the operation that produced res
    res       \* the outcome of the operation

vars == <<first, second, days, parts, year, rhs, op, res>>

(***************************************************************************)
(* Bounds of the model.                                                    *)
(***************************************************************************)
\* Years range over -MaxYear..MaxYear without 0.
MaxYear == 5
\* Days of a month used as inputs: 1..MaxDay and the month's last day.
MaxDay == 2
\* add_days is given counts in -MaxShift..MaxShift.
MaxShift == 2

(***************************************************************************)
(* Outcomes.                                                               *)
(***************************************************************************)
Ok(v) == [tag |-> "ok", val |-> v]
Panic == [tag |-> "panic"]
InvalidDay(d) == [tag |-> "err", kind |-> "InvalidDay", val |-> d]
None == [tag |-> "none"]

\* Rust's `%` on signed integers truncates toward zero.
Rem(a, b) == IF a >= 0 THEN a % b ELSE -((-a) % b)

RECURSIVE SumRange(_, _, _)
\* Sum of seq[lo..hi] (1-based, inclusive): `.iter().map(|i| *i as u16).sum()`.
SumRange(seq, lo, hi) ==
    IF lo > hi THEN 0 ELSE seq[lo] + SumRange(seq, lo + 1, hi)

(***************************************************************************)
(* Year                                                                    *)
(***************************************************************************)
is_leap_year_div4(inner) == Rem(inner, 4) = 0

is_leap_year(inner) ==
    Rem(inner, 4) = 0 /\ ((Rem(inner, 400) = 0) \/ Rem(inner, 100) # 0)

next_plain(y) == y + 1

next(y) == IF y = -1 THEN 1 ELSE y + 1

\* impl TryFrom<i128> for Year
try_from(v) == IF v = 0 THEN [tag |-> "err", kind |-> "Zero", val |-> v] ELSE Ok(v)

sub_plain(this, other) == this - other

sub(this, other) ==
    LET diff == this - other
    IN  IF this > 0 /\ other < 0 THEN diff - 1
        ELSE IF this < 0 /\ other > 0 THEN diff + 1
        ELSE diff

(***************************************************************************)
(* Date                                                                    *)
(***************************************************************************)
REG_DAYS_IN_MONTH == <<31, 28, 31, 30, 31, 30, 31, 31, 30, 31, 30, 31>>
LEAP_DAYS_IN_MONTH == <<31, 29, 31, 30, 31, 30, 31, 31, 30, 31, 30, 31>>

Date(y, m, d) == [year |-> y, month |-> m, day |-> d]

from_parts(y, m, d) ==
    LET days_in_month == IF is_leap_year(y) THEN LEAP_DAYS_IN_MONTH
                         ELSE REG_DAYS_IN_MONTH
    IN  IF ~(1 <= d /\ d <= days_in_month[m])
        THEN InvalidDay(d)
        ELSE Ok(Date(y, m, d))

from_year(y) == Date(y, 1, 1)

reference_date == Date(1, 1, 1)

\* Ord for Date: -1 (Less), 0 (Equal), 1 (Greater).
cmp(a, b) ==
    IF a.year # b.year THEN (IF a.year < b.year THEN -1 ELSE 1)
    ELSE IF a.month # b.month THEN (IF a.month < b.month THEN -1 ELSE 1)
    ELSE IF a.day # b.day THEN (IF a.day < b.day THEN -1 ELSE 1)
    ELSE 0

\* leap_days_between without the extra day for a leap first year.
leap_days_between_no_first(a, b) ==
    LET f == IF cmp(a, b) = 1 THEN b ELSE a
        s == IF cmp(a, b) = 1 THEN a ELSE b
        range == {y \in (f.year + 1)..(s.year - 1) : TRUE}
    IN  IF 0 \in range
        THEN Panic
        ELSE LET leap_years == Cardinality({y \in range : is_leap_year(y)})
                 l2 == IF s.month > 2 /\ is_leap_year(s.year) THEN 1 ELSE 0
             IN  Ok(leap_years + l2)

leap_days_between(a, b) ==
    LET f == IF cmp(a, b) = 1 THEN b ELSE a
        s == IF cmp(a, b) = 1 THEN a ELSE b
        range == {y \in (f.year + 1)..(s.year - 1) : TRUE}
    IN  IF 0 \in range
        THEN Panic   \* Year::try_from(0).unwrap()
        ELSE LET leap_years == Cardinality({y \in range : is_leap_year(y)})
                 l1 == IF f.month <= 2 /\ is_leap_year(f.year) THEN 1 ELSE 0
                 l2 == IF s.month > 2 /\ is_leap_year(s.year) THEN 1 ELSE 0
             IN  Ok(leap_years + l1 + l2)

\* The body of days_between after its arguments have been put in order.
days_between_ordered(f, s) ==
    IF f.year = s.year
    THEN LET days_in_month == IF is_leap_year(f.year) THEN LEAP_DAYS_IN_MONTH
                              ELSE REG_DAYS_IN_MONTH
         IN  IF f.month > s.month
             THEN Panic   \* slice index starts after its end
             ELSE Ok(SumRange(days_in_month, f.month + 1, s.month)
                     + s.day - f.day)
    ELSE LET days_in_month_second == IF is_leap_year(s.year)
                                     THEN LEAP_DAYS_IN_MONTH
                                     ELSE REG_DAYS_IN_MONTH
             days_last_year ==
                 SumRange(days_in_month_second, 1, s.month - 1) + s.day - 1
             days_in_month_first == IF is_leap_year(f.year)
                                    THEN LEAP_DAYS_IN_MONTH
                                    ELSE REG_DAYS_IN_MONTH
             days_first_year ==
                 SumRange(days_in_month_first, f.month + 1, 12)
                 + days_in_month_first[f.month] - f.day + 1
             leap_days ==
                 leap_days_between(from_year(next(f.year)), from_year(s.year))
         IN  IF leap_days.tag = "panic"
             THEN Panic
             ELSE LET days_other_years ==
                          IF sub(s.year, f.year) > 1
                          THEN (sub(s.year, f.year) - 1) * 365 + leap_days.val
                          ELSE 0
                  IN  Ok(days_other_years + days_first_year + days_last_year)

days_between_no_swap(a, b) == days_between_ordered(a, b)

days_between(a, b) ==
    IF cmp(a, b) = 1 THEN days_between_ordered(b, a)
    ELSE days_between_ordered(a, b)

(***************************************************************************)
(* Conversions through StandardCalendar                                    *)
(***************************************************************************)
to_standard_unsigned(date) == days_between(reference_date, date)

\* impl From<&Date> for StandardCalendar; the outcome carries `.days`.
to_standard(date) ==
    LET between == days_between(reference_date, date)
    IN  IF between.tag = "panic" THEN Panic
        ELSE IF cmp(reference_date, date) = -1 THEN Ok(between.val)
        ELSE Ok(-between.val)

\* impl From<StandardCalendar> for Date: the `year` field is `todo!()`, the
\* first field expression evaluated, so every call panics.
from_standard(standard) == Panic

\* ConvertCalendar::convert_to::<Date>
convert_to(date) ==
    LET standard == to_standard(date)
    IN  IF standard.tag = "panic" THEN Panic ELSE from_standard(standard.val)

\* Calendar::add_days for Date: the body is `todo!()`.
add_days(date, n) == Panic

(***************************************************************************)
(* Inputs                                                                  *)
(***************************************************************************)
Years == {y \in (-MaxYear)..MaxYear : y # 0}
Months == 1..12

\* Dates are built by from_parts only.
InputDates ==
    {dt \in [year : Years, month : Months, day : 1..31] :
        /\ from_parts(dt.year, dt.month, dt.day).tag = "ok"
        /\ \/ dt.day <= MaxDay
           \/ from_parts(dt.year, dt.month, dt.day + 1).tag = "err"}

DayCounts == (-MaxShift)..MaxShift

(***************************************************************************)
(* Spec: the operations on dates.                                          *)
(***************************************************************************)
Init ==
    /\ first \in InputDates
    /\ second = reference_date
    /\ days = 0
    /\ parts = <<1, 1, 1>>
    /\ year = 1
    /\ rhs = 1
    /\ op = "init"
    /\ res = None

DaysBetweenCall ==
    /\ op = "init"
    /\ \E b \in InputDates :
        /\ second' = b
        /\ res' = days_between(first, b)
    /\ op' = "days_between"
    /\ UNCHANGED <<first, days, parts, year, rhs>>

ToStandardCall ==
    /\ op = "init"
    /\ res' = to_standard(first)
    /\ op' = "to_standard"
    /\ UNCHANGED <<first, second, days, parts, year, rhs>>

\* from_standard applied to the value to_standard returned.
FromStandardCall ==
    /\ op = "to_standard"
    /\ res.tag = "ok"
    /\ res' = from_standard(res.val)
    /\ op' = "from_standard"
    /\ UNCHANGED <<first, second, days, parts, year, rhs>>

ConvertToCall ==
    /\ op = "init"
    /\ res' = convert_to(first)
    /\ op' = "convert_to"
    /\ UNCHANGED <<first, second, days, parts, year, rhs>>

\* add_days mutates the date in place when it returns.
AddDaysCall ==
    /\ op = "init"
    /\ \E n \in DayCounts :
        /\ days' = n
        /\ res' = add_days(first, n)
        /\ first' = IF add_days(first, n).tag = "ok"
                    THEN add_days(first, n).val ELSE first
    /\ op' = "add_days"
    /\ UNCHANGED <<second, parts, year, rhs>>

Next ==
    \/ DaysBetweenCall
    \/ ToStandardCall
    \/ FromStandardCall
    \/ ConvertToCall
    \/ AddDaysCall

Spec == Init /\ [][Next]_vars

(***************************************************************************)
(* SpecParts: construction of a date from raw parts.                       *)
(***************************************************************************)
\* Years with the century cases of the leap-year rule, and the doc examples.
CenturyYears == {-400, -100, 100, 400, 1900, 2000, 2008, 2020}
PartYears == Years \cup CenturyYears

\* The day is a u8.
DayValues == 0..255

InitParts ==
    /\ parts \in PartYears \X Months \X DayValues
    /\ first = reference_date
    /\ second = reference_date
    /\ days = 0
    /\ year = 1
    /\ rhs = 1
    /\ op = "init"
    /\ res = None

FromPartsCall ==
    /\ op = "init"
    /\ res' = from_parts(parts[1], parts[2], parts[3])
    /\ first' = IF from_parts(parts[1], parts[2], parts[3]).tag = "ok"
                THEN from_parts(parts[1], parts[2], parts[3]).val ELSE first
    /\ op' = "from_parts"
    /\ UNCHANGED <<second, days, parts, year, rhs>>

NextParts == FromPartsCall

SpecParts == InitParts /\ [][NextParts]_vars

(***************************************************************************)
(* SpecYear: the operations on Year.                                       *)
(***************************************************************************)
InitYear ==
    /\ year \in Years
    /\ rhs = 1
    /\ first = reference_date
    /\ second = reference_date
    /\ days = 0
    /\ parts = <<1, 1, 1>>
    /\ op = "init"
    /\ res = None

\* year - b
SubCall ==
    /\ \E b \in Years :
        /\ rhs' = b
        /\ res' = Ok(sub(year, b))
    /\ op' = "sub"
    /\ UNCHANGED <<first, second, days, parts, year>>

\* year = year.next(), while the year stays within the bound
NextCall ==
    /\ year < MaxYear
    /\ year' = next(year)
    /\ res' = Ok(next(year))
    /\ op' = "next"
    /\ UNCHANGED <<first, second, days, parts, rhs>>

\* year = Year::try_from(v)?
TryFromCall ==
    /\ \E v \in (-MaxYear)..MaxYear :
        /\ rhs' = v
        /\ res' = try_from(v)
        /\ year' = IF try_from(v).tag = "ok" THEN try_from(v).val ELSE year
    /\ op' = "try_from"
    /\ UNCHANGED <<first, second, days, parts>>

NextYear ==
    \/ SubCall
    \/ NextCall
    \/ TryFromCall

SpecYear == InitYear /\ [][NextYear]_vars

(***************************************************************************)
(* The calendar the claims refer to: the valid dates, in order, one per    *)
(* day.  Stepping one day at a time from a to b visits each valid date of   *)
(* [a, b) once, so the number of steps is the number of those dates.       *)
(***************************************************************************)
LeapRule(y) == y % 4 = 0 /\ (y % 400 = 0 \/ y % 100 # 0)

RegularTable == <<31, 28, 31, 30, 31, 30, 31, 31, 30, 31, 30, 31>>
LeapTable == <<31, 29, 31, 30, 31, 30, 31, 31, 30, 31, 30, 31>>

TableOf(y) == IF LeapRule(y) THEN LeapTable ELSE RegularTable

\* Lexicographic order on (year, month, day).
Before(a, b) ==
    \/ a.year < b.year
    \/ a.year = b.year /\ a.month < b.month
    \/ a.year = b.year /\ a.month = b.month /\ a.day < b.day

CalendarDates ==
    {dt \in [year : Years, month : Months, day : 1..31] :
        dt.day <= TableOf(dt.year)[dt.month]}

\* Number of days of the calendar on or after a and before b.
StepsBetween(a, b) ==
    Cardinality({e \in CalendarDates : ~Before(e, a) /\ Before(e, b)})

\* N(d): the absolute day number, 0 at 1 January of year 1.  (The empty
\* function is merged in so that the table is computed once, as a whole.)
AbsoluteDayTable ==
    [d \in InputDates |->
        IF Before(d, reference_date)
        THEN -StepsBetween(d, reference_date)
        ELSE StepsBetween(reference_date, d)] @@ <<>>

AbsoluteDay(d) == AbsoluteDayTable[d]

(***************************************************************************)
(* Claims                                                                  *)
(***************************************************************************)

\* C1: for valid dates a <= b, in the same year or not, days_between(a, b)
\* is N(b) - N(a), the difference of the absolute day numbers.
DaysBetweenIsAbsoluteDifference ==
    (op = "days_between" /\ ~Before(second, first) /\ res.tag = "ok")
        => res.val = AbsoluteDay(second) - AbsoluteDay(first)

\* C2: days_between of two valid dates, in either order, is never negative.
DaysBetweenNonNegative ==
    (op = "days_between" /\ res.tag = "ok") => res.val >= 0

\* C3: days_between is symmetric: the call with the arguments swapped has
\* the same outcome (the same value, or a panic in both orders).
DaysBetweenSymmetric ==
    op = "days_between" => res = days_between(second, first)

\* C3 witness: a call whose arguments were given in descending order.
DaysBetweenSymmetricWitness ==
    /\ op = "days_between"
    /\ Before(second, first)
    /\ first.year # second.year
    /\ res.tag = "ok"
    /\ res.val > 0

\* C4: days_between and to_standard return a value, and never panic, for
\* every valid date and every pair of valid dates.
NeverPanics ==
    op \in {"days_between", "to_standard"} => res.tag = "ok"

\* C5: to_standard(d).days is +days_between(reference_date, d) for d on or
\* after the reference date and -days_between(reference_date, d) for d before
\* it (a panic of days_between is the outcome of to_standard too); the
\* reference date maps to 0 and 31 December of year -1 to -1.
ToStandardIsSignedDistance ==
    op = "to_standard" =>
        /\ LET between == days_between(reference_date, first)
           IN  res = IF between.tag = "panic" THEN Panic
                     ELSE IF Before(first, reference_date)
                          THEN Ok(0 - between.val)
                          ELSE Ok(between.val)
        /\ first = reference_date => res = Ok(0)
        /\ first = Date(-1, 12, 31) => res = Ok(-1)

\* C5 witness: 31 December of year -1 converted to day -1.
ToStandardIsSignedDistanceWitness ==
    /\ op = "to_standard"
    /\ first = Date(-1, 12, 31)
    /\ res = Ok(-1)

\* C6: to_standard is strictly order-preserving: for valid dates d1 < d2,
\* to_standard(d1).days < to_standard(d2).days.
ToStandardOrderPreserving ==
    (op = "to_standard" /\ res.tag = "ok") =>
        \A d2 \in InputDates :
            (Before(first, d2) /\ to_standard(d2).tag = "ok")
                => res.val < to_standard(d2).val

\* C7: from_standard(to_standard(d)) = d for every valid date d, and
\* convert_to::<Date>() applied to d returns d.
RoundTripIsIdentity ==
    /\ op = "from_standard" => res = Ok(first)
    /\ (op = "convert_to" /\ to_standard(first).tag = "ok") => res = Ok(first)

\* C8: after d.add_days(n) the date d equals
\* from_standard(to_standard(d_before) + n).
AddDaysIsShiftedRoundTrip ==
    [][op' = "add_days" =>
        /\ res'.tag = "ok"
        /\ LET standard == to_standard(first)
           IN  /\ standard.tag = "ok"
               /\ Ok(first') = from_standard(standard.val + days')]_vars

\* The leap table applies exactly when y % 4 == 0 and (y % 400 == 0 or
\* y % 100 != 0).
ClaimedTable(y) ==
    IF LeapRule(y) THEN <<31, 29, 31, 30, 31, 30, 31, 31, 30, 31, 30, 31>>
    ELSE <<31, 28, 31, 30, 31, 30, 31, 31, 30, 31, 30, 31>>

\* C9: from_parts(y, m, n) succeeds iff 1 <= n <= table[m]; a failure is
\* InvalidDay(n), a success is the date with exactly the given fields.
FromPartsAcceptsExactlyValidDays ==
    op = "from_parts" =>
        LET y == parts[1]
            m == parts[2]
            n == parts[3]
            valid == 1 <= n /\ n <= ClaimedTable(y)[m]
        IN  /\ res.tag = "ok" <=> valid
            /\ ~valid => res = InvalidDay(n)
            /\ valid => (res = Ok(Date(y, m, n)) /\ first = Date(y, m, n))

\* C9 witness: 29 February of 1900, a century year that is not a leap year,
\* is rejected with the day it was given.
FromPartsAcceptsExactlyValidDaysWitness ==
    /\ op = "from_parts"
    /\ parts = <<1900, 2, 29>>
    /\ res = InvalidDay(29)

\* The years of the sequence ..., -2, -1, 1, 2, ... from a up to b, a excluded.
YearsCrossed(a, b) == Cardinality({y \in (a + 1)..b : y # 0})

\* C10: a - b is the plain difference for years of the same sign, one less
\* for a > 0 > b, one more for a < 0 < b: the signed number of year
\* boundaries crossed; and a - b = -(b - a).
YearSubCountsBoundaries ==
    op = "sub" =>
        /\ res.tag = "ok"
        /\ (year > 0) = (rhs > 0) => res.val = year - rhs
        /\ (year > 0 /\ rhs < 0) => res.val = year - rhs - 1
        /\ (year < 0 /\ rhs > 0) => res.val = year - rhs + 1
        /\ res.val = IF rhs <= year THEN YearsCrossed(rhs, year)
                     ELSE 0 - YearsCrossed(year, rhs)
        /\ res.val = 0 - sub(rhs, year)
        /\ (year = 1 /\ rhs = -1) => res.val = 1
        /\ (year = -1 /\ rhs = 1) => res.val = -1

\* C10 witness: year 1 minus year -1, across the missing year 0.
YearSubCountsBoundariesWitness ==
    /\ op = "sub"
    /\ year = 1
    /\ rhs = -1
    /\ res = Ok(1)

\* C11: a Year is never zero: try_from(v) fails iff v = 0 and otherwise
\* yields the year v; every next() call yields a non-zero year, 1 from -1
\* and y + 1 from any other y, so that next(y) - y = 1 under Year
\* subtraction.
YearNeverZero ==
    [][/\ year' # 0
       /\ op' = "try_from" =>
            /\ res'.tag = "err" <=> rhs' = 0
            /\ rhs' # 0 => (res' = Ok(rhs') /\ year' = rhs')
       /\ op' = "next" =>
            /\ res' = Ok(year')
            /\ year = -1 => year' = 1
            /\ year # -1 => year' = year + 1
            /\ sub(year', year) = 1]_vars

\* C11 witness: next() applied to year -1 gave year 1 (no other year has
\* year 1 as its successor).
YearNeverZeroWitness ==
    /\ op = "next"
    /\ year = 1
    /\ res = Ok(1)

RECURSIVE MonthDays(_, _, _)
\* The days of the months lo..hi of year y, by the claimed tables.
MonthDays(y, lo, hi) ==
    IF lo > hi THEN 0 ELSE ClaimedTable(y)[lo] + MonthDays(y, lo + 1, hi)

\* T: the days from date a up to 1 January of the year after a.year.
TailOfYear(a) ==
    MonthDays(a.year, a.month + 1, 12)
    + (ClaimedTable(a.year)[a.month] - a.day) + 1

\* H: the days from 1 January of b.year up to date b.
HeadOfYear(b) == MonthDays(b.year, 1, b.month - 1) + b.day - 1

\* W: the days of the whole years strictly between the years fy < sy.
WholeYears(fy, sy) ==
    IF sy = fy + 1 THEN 0
    ELSE 365 * (sy - fy - 1)
         + Cardinality({y \in (fy + 1)..(sy - 1) : LeapRule(y)})

\* C12: for valid dates first < second in different positive years,
\* days_between(first, second) = T + W + H.
DaysBetweenIsThreeSpans ==
    (/\ op = "days_between"
     /\ Before(first, second)
     /\ first.year > 0
     /\ first.year # second.year)
        => res = Ok(TailOfYear(first)
                    + WholeYears(first.year, second.year)
                    + HeadOfYear(second))

\* C12 witness: 1 January of year 3 to 1 January of year 5, with the leap
\* year 4 strictly between: 365 + 366 days.
DaysBetweenIsThreeSpansWitness ==
    /\ op = "days_between"
    /\ first = Date(3, 1, 1)
    /\ second = Date(5, 1, 1)
    /\ res = Ok(731)

====
